---- MODULE Spec2Model ----
(***************************************************************************)
(* Model of lambda_function.py: the CloudWatch billing-metric cost monitor. *)
(*                                                                         *)
(* Units.  Money is fixed point.  A raw CloudWatch reading (Maximum) is an *)
(* integer number of milli-dollars.  The readings given to the normalizer  *)
(* alone are multiples of $0.125, which binary floating point represents   *)
(* exactly, so that Python's round(x, 2) on them and on their differences  *)
(* is exactly round-half-even; the readings given to the handler and to    *)
(* the detector are whole cents, whose differences are whole cents.  A     *)
(* value produced by round(x, 2) (total_cost, cumulative_cost, ...) is     *)
(* an integer number of cents.  Inside detect_anomalies_mad the median and *)
(* the MAD are kept in quarter-cents, which makes the two "mean of the     *)
(* middle values" steps exact.  z_score and the threshold are in           *)
(* hundredths; deviation_percent is in hundredths of a percent.            *)
(***************************************************************************)
EXTENDS Integers, Sequences, FiniteSets, TLC

VARIABLES
    SNS_TOPIC_ARN,      \* os.environ.get('SNS_TOPIC_ARN'): "" when not configured
    S3_BUCKET,          \* os.environ.get('S3_BUCKET'): "" when not configured
    ANOMALY_THRESHOLD,  \* float(os.environ.get('ANOMALY_THRESHOLD', '3.0')), hundredths
    now,                \* datetime.utcnow(), in clock ticks
    pc,                 \* pc[i]: where invocation i of lambda_handler stands
    datapoints,         \* datapoints[i]: response['Datapoints'] of invocation i
    cost_data,          \* cost_data[i]: the local cost_data of invocation i
    anomalies,          \* anomalies[i]: the local anomalies of invocation i
    response,           \* response[i]: statusCode returned by invocation i (0: none yet)
    fetch_raised,       \* fetch_raised[i]: fetch_billing_metrics raised in invocation i
    s3_puts,            \* every s3.put_object call made so far, in order
    sns_publishes       \* every sns.publish call made so far, in order

vars == <<SNS_TOPIC_ARN, S3_BUCKET, ANOMALY_THRESHOLD, now, pc, datapoints,
          cost_data, anomalies, response, fetch_raised, s3_puts, sns_publishes>>

----------------------------------------------------------------------------
(* Bounds of the model *)

MaxLen == 8         \* longest cost series given to the detector / handler
MaxRaw == 3         \* longest raw response given to the normalizer alone
MaxClock == 3       \* the clock ticks at most this many times
TicksPerSecond == 2 \* resolution of the model's clock: ticks in one second

(* Program constants *)

Period == 86400             \* Period=86400 (one datapoint per day)
MIN_POINTS == 7             \* len(cost_data) < 7
Z_COEFF == 6745             \* 0.6745, in ten-thousandths
MAD_FLOOR == 4              \* mad = 0.01 dollars = 1 cent = 4 quarter-cents
DEFAULT_THRESHOLD == 300    \* '3.0', in hundredths

----------------------------------------------------------------------------
(* Arithmetic helpers *)

Abs(x) == IF x < 0 THEN -x ELSE x

Max(a, b) == IF a >= b THEN a ELSE b

\* round(num/den) to the nearest integer, ties to the even neighbour (den > 0):
\* what Python's round(x, 2) does to a value x = num/den hundredths.
round(num, den) ==
    LET q == num \div den
        r == num - q * den
    IN  IF 2 * r < den THEN q
        ELSE IF 2 * r > den THEN q + 1
        ELSE IF q % 2 = 0 THEN q ELSE q + 1

\* sorted(xs) for a list of numbers (ascending).
RECURSIVE InsertAsc(_, _)
InsertAsc(x, s) ==
    IF s = <<>> THEN <<x>>
    ELSE IF x < Head(s) THEN <<x>> \o s
    ELSE <<Head(s)>> \o InsertAsc(x, Tail(s))

RECURSIVE sorted(_)
sorted(s) ==
    IF s = <<>> THEN <<>>
    ELSE InsertAsc(s[Len(s)], sorted(SubSeq(s, 1, Len(s) - 1)))

----------------------------------------------------------------------------
(* fetch_billing_metrics, lines 89-109: the Series Normalizer.             *)
(* A datapoint is [Timestamp |-> seconds, Maximum |-> milli-dollars].      *)

\* sorted(response['Datapoints'], key=lambda x: x['Timestamp']): stable.
RECURSIVE InsertByTimestamp(_, _)
InsertByTimestamp(x, s) ==
    IF s = <<>> THEN <<x>>
    ELSE IF x.Timestamp < Head(s).Timestamp THEN <<x>> \o s
    ELSE <<Head(s)>> \o InsertByTimestamp(x, Tail(s))

RECURSIVE sorted_by_timestamp(_)
sorted_by_timestamp(s) ==
    IF s = <<>> THEN <<>>
    ELSE InsertByTimestamp(s[Len(s)], sorted_by_timestamp(SubSeq(s, 1, Len(s) - 1)))

\* point['Timestamp'].strftime('%Y-%m-%d'): the calendar day, as a day number.
strftime_date(Timestamp) == Timestamp \div Period

\* daily_cost of the i-th sorted datapoint, unrounded (milli-dollars).
daily_cost(dps, i) ==
    IF i > 1 THEN dps[i].Maximum - dps[i - 1].Maximum
    ELSE dps[i].Maximum

\* (mutant) the clamp to 0 forgotten
total_cost_unclamped(dps, i) == round(daily_cost(dps, i), 10)

\* 'total_cost': round(max(daily_cost, 0), 2), in cents.
total_cost_of(dps, i) == round(Max(daily_cost(dps, i), 0), 10)

fetch_billing_metrics(Datapoints) ==
    LET dps == sorted_by_timestamp(Datapoints)
    IN  [i \in 1..Len(dps) |->
            [date            |-> strftime_date(dps[i].Timestamp),
             total_cost      |-> total_cost_of(dps, i),
             cumulative_cost |-> round(dps[i].Maximum, 10)]]

----------------------------------------------------------------------------
(* detect_anomalies_mad, lines 117-160: the Anomaly Detector.              *)

\* (mutant) the upper middle value taken for an even length too
median_x2_upper(xs) ==
    LET s == sorted(xs)
        n == Len(s)
    IN  2 * s[(n \div 2) + 1]

\* sorted_costs[n // 2] if n % 2 == 1 else the mean of the two middle values;
\* xs in units u, the result in units u/2.
median_x2(xs) ==
    LET s == sorted(xs)
        n == Len(s)
    IN  IF n % 2 = 1 THEN 2 * s[(n \div 2) + 1]
        ELSE s[n \div 2] + s[(n \div 2) + 1]

\* median of the costs (cents), in quarter-cents.
median_of(costs) == 2 * median_x2(costs)

\* cost - median, in quarter-cents.
deviation(cost, median) == 4 * cost - median

\* mad: median of |cost - median|, floored at 0.01 when exactly 0; quarter-cents.
\* Every deviation is an even number of quarter-cents, so the halving is exact.
mad_of(costs, median) ==
    LET absolute_deviations == [i \in 1..Len(costs) |-> Abs(deviation(costs[i], median))]
        mad == median_x2(absolute_deviations) \div 2
    IN  IF mad = 0 THEN MAD_FLOOR ELSE mad

\* modified_z_score = 0.6745 * (cost - median) / mad, in hundredths, as the
\* exact fraction z_num / z_den with z_den > 0.
z_num(dev) == Z_COEFF * dev
z_den(mad) == 100 * mad

\* abs(modified_z_score) > threshold
exceeds(dev, mad, threshold) ==
    Abs(z_num(dev)) > threshold * z_den(mad)

\* "spike" if modified_z_score > 0 else "drop"
anomaly_type_of(dev) == IF z_num(dev) > 0 THEN "spike" ELSE "drop"

\* (mutant) critical only beyond twice the threshold
severity_of_double(dev, mad, threshold) ==
    IF Abs(z_num(dev)) > 2 * threshold * z_den(mad) THEN "critical" ELSE "warning"

\* "critical" if abs(modified_z_score) > threshold * 1.5 else "warning"
severity_of(dev, mad, threshold) ==
    IF 2 * Abs(z_num(dev)) > 3 * threshold * z_den(mad) THEN "critical" ELSE "warning"

\* round(modified_z_score, 2), in hundredths
z_score_of(dev, mad) == round(z_num(dev), z_den(mad))

\* (mutant) the percentage taken against the reported, rounded median
deviation_percent_of_rounded_median(dev, median) ==
    IF median > 0 THEN round(dev * 10000, 4 * round(median, 4)) ELSE 0

\* round(((cost - median) / median * 100), 2) if median > 0 else 0
deviation_percent_of(dev, median) ==
    IF median > 0 THEN round(dev * 10000, median) ELSE 0

\* One record of anomalies.append (lines 147-157).  'median' and
\* 'deviation_amount' round a value that may end in half a cent; on such a tie
\* the binary float may fall to either neighbour, the model takes the even one.
anomaly_record(day, median, mad, threshold) ==
    LET dev == deviation(day.total_cost, median)
    IN  [date              |-> day.date,
         cost              |-> day.total_cost,
         median            |-> round(median, 4),
         z_score           |-> z_score_of(dev, mad),
         anomaly_type      |-> anomaly_type_of(dev),
         severity          |-> severity_of(dev, mad, threshold),
         deviation_amount  |-> round(dev, 4),
         deviation_percent |-> deviation_percent_of(dev, median)]

\* the loop of lines 138-157: the flagged days, in the order of cost_data
RECURSIVE flagged(_, _, _, _)
flagged(days, median, mad, threshold) ==
    IF days = <<>> THEN <<>>
    ELSE LET rest == flagged(Tail(days), median, mad, threshold)
             day  == Head(days)
         IN  IF exceeds(deviation(day.total_cost, median), mad, threshold)
             THEN <<anomaly_record(day, median, mad, threshold)>> \o rest
             ELSE rest

\* anomalies.sort(key=lambda x: abs(x['z_score']), reverse=True): stable,
\* an element stays behind every earlier element whose key is >= its own.
\* (mutant) an element overtakes the earlier elements of equal key
ranks_before_or_equal(x, y) == Abs(x.z_score) >= Abs(y.z_score)

\* x, met later, goes before y in the descending order
ranks_before(x, y) == Abs(x.z_score) > Abs(y.z_score)

RECURSIVE InsertByScore(_, _)
InsertByScore(x, s) ==
    IF s = <<>> THEN <<x>>
    ELSE IF ranks_before(x, Head(s)) THEN <<x>> \o s
    ELSE <<Head(s)>> \o InsertByScore(x, Tail(s))

RECURSIVE sort_by_score(_)
sort_by_score(s) ==
    IF s = <<>> THEN <<>>
    ELSE InsertByScore(s[Len(s)], sort_by_score(SubSeq(s, 1, Len(s) - 1)))

\* (mutant) six points accepted
insufficient_history_six(days) == Len(days) < MIN_POINTS - 1

\* if len(cost_data) < 7: return []
insufficient_history(days) == Len(days) < MIN_POINTS

detect_anomalies_mad(days, threshold) ==
    IF insufficient_history(days) THEN <<>>
    ELSE LET costs  == [i \in 1..Len(days) |-> days[i].total_cost]
             median == median_of(costs)
             mad    == mad_of(costs, median)
         IN  sort_by_score(flagged(days, median, mad, threshold))

----------------------------------------------------------------------------
(* save_to_s3, lines 201-226, and send_alert, lines 163-198.               *)

\* datetime.utcnow().strftime('%Y-%m-%d_%H-%M-%S'): the instant cut to the second.
strftime_second(t) == t \div TicksPerSecond

\* f"cost-anomaly-reports/{timestamp}.json"
report_key(t) == <<"cost-anomaly-reports", strftime_second(t), "json">>

\* (mutant) the failure of put_object not caught
save_to_s3_uncaught(ok) == ~ok

\* try: s3.put_object(...) except Exception as e: print(...): never propagates
save_to_s3_raises(ok) == FALSE

\* (mutant) a report written only when there is an anomaly
save_to_s3_only_anomalies(i, days, found, ok) ==
    IF S3_BUCKET = "" \/ found = <<>> THEN s3_puts
    ELSE Append(s3_puts, [inv       |-> i,
                          Bucket    |-> S3_BUCKET,
                          Key       |-> <<"cost-anomaly-reports", now \div TicksPerSecond, "json">>,
                          cost_data |-> days,
                          anomalies |-> found,
                          ok        |-> ok])

\* the put_object calls after save_to_s3(cost_data, anomalies) of invocation i
save_to_s3(i, days, found, ok) ==
    IF S3_BUCKET = "" THEN s3_puts
    ELSE Append(s3_puts, [inv       |-> i,
                          Bucket    |-> S3_BUCKET,
                          Key       |-> report_key(now),
                          cost_data |-> days,
                          anomalies |-> found,
                          ok        |-> ok])

\* try: sns.publish(...) except Exception as e: print(...): never propagates
send_alert_raises(ok) == FALSE

\* (mutant) the last anomaly taken
alerted_anomaly_last(found) == found[Len(found)]

\* anomaly = anomalies[0]
alerted_anomaly(found) == found[1]

\* the publish calls after send_alert(anomalies) of invocation i
send_alert(i, found, ok) ==
    IF SNS_TOPIC_ARN = "" THEN sns_publishes
    ELSE Append(sns_publishes, [inv      |-> i,
                                TopicArn |-> SNS_TOPIC_ARN,
                                anomaly  |-> alerted_anomaly(found),
                                total    |-> Len(found),
                                ok       |-> ok])

----------------------------------------------------------------------------
(* lambda_handler, lines 25-61, one action per external call.              *)

Invocations == {1, 2}

\* create_response(500, ...) of the except clause
error_status == 500

\* create_response(200, ...)
success_status == 200

\* cost_data = fetch_billing_metrics(LOOKBACK_DAYS) returns; then
\* "if not cost_data: return", else anomalies = detect_anomalies_mad(...)
lambda_handler_fetch(i, Datapoints) ==
    LET days == fetch_billing_metrics(Datapoints)
    IN  /\ pc[i] = "start"
        /\ datapoints' = [datapoints EXCEPT ![i] = Datapoints]
        /\ cost_data' = [cost_data EXCEPT ![i] = days]
        /\ IF days = <<>>
           THEN /\ pc' = [pc EXCEPT ![i] = "done"]
                /\ response' = [response EXCEPT ![i] = success_status]
                /\ UNCHANGED anomalies
           ELSE /\ pc' = [pc EXCEPT ![i] = "save"]
                /\ anomalies' = [anomalies EXCEPT ![i] =
                                    detect_anomalies_mad(days, ANOMALY_THRESHOLD)]
                /\ UNCHANGED response
        /\ UNCHANGED <<SNS_TOPIC_ARN, S3_BUCKET, ANOMALY_THRESHOLD, now,
                       fetch_raised, s3_puts, sns_publishes>>

\* fetch_billing_metrics raises (lines 111-114); the handler's except returns 500
lambda_handler_fetch_raises(i) ==
    /\ pc[i] = "start"
    /\ pc' = [pc EXCEPT ![i] = "done"]
    /\ response' = [response EXCEPT ![i] = error_status]
    /\ fetch_raised' = [fetch_raised EXCEPT ![i] = TRUE]
    /\ UNCHANGED <<SNS_TOPIC_ARN, S3_BUCKET, ANOMALY_THRESHOLD, now, datapoints,
                   cost_data, anomalies, s3_puts, sns_publishes>>

\* save_to_s3(cost_data, anomalies); ok: whether put_object succeeds
lambda_handler_save(i, ok) ==
    /\ pc[i] = "save"
    /\ s3_puts' = save_to_s3(i, cost_data[i], anomalies[i], ok)
    /\ IF S3_BUCKET # "" /\ save_to_s3_raises(ok)
       THEN /\ pc' = [pc EXCEPT ![i] = "done"]
            /\ response' = [response EXCEPT ![i] = error_status]
       ELSE /\ pc' = [pc EXCEPT ![i] = "alert"]
            /\ UNCHANGED response
    /\ UNCHANGED <<SNS_TOPIC_ARN, S3_BUCKET, ANOMALY_THRESHOLD, now, datapoints,
                   cost_data, anomalies, fetch_raised, sns_publishes>>

\* if anomalies: send_alert(anomalies); then return create_response(200, ...);
\* ok: whether publish succeeds
lambda_handler_alert(i, ok) ==
    /\ pc[i] = "alert"
    /\ sns_publishes' = IF anomalies[i] # <<>>
                        THEN send_alert(i, anomalies[i], ok)
                        ELSE sns_publishes
    /\ pc' = [pc EXCEPT ![i] = "done"]
    /\ response' = [response EXCEPT ![i] =
                       IF anomalies[i] # <<>> /\ SNS_TOPIC_ARN # "" /\ send_alert_raises(ok)
                       THEN error_status ELSE success_status]
    /\ UNCHANGED <<SNS_TOPIC_ARN, S3_BUCKET, ANOMALY_THRESHOLD, now, datapoints,
                   cost_data, anomalies, fetch_raised, s3_puts>>

\* time passes
tick ==
    /\ now < MaxClock
    /\ now' = now + 1
    /\ UNCHANGED <<SNS_TOPIC_ARN, S3_BUCKET, ANOMALY_THRESHOLD, pc, datapoints,
                   cost_data, anomalies, response, fetch_raised, s3_puts, sns_publishes>>

----------------------------------------------------------------------------
(* Inputs *)

\* daily costs, in cents
CostVals == {0, 11, 60}

\* the example series of the specification: seven days at 10.00, one at 100.00
ExampleCosts == <<1000, 1000, 1000, 1000, 1000, 1000, 1000, 10000>>

Thresholds == {50, 200, DEFAULT_THRESHOLD}

RECURSIVE Sum(_)
Sum(s) == IF s = <<>> THEN 0 ELSE s[Len(s)] + Sum(SubSeq(s, 1, Len(s) - 1))

\* the response whose readings accumulate the given daily costs: day i at
\* timestamp i days, the reading in milli-dollars
response_of(costs) ==
    [i \in 1..Len(costs) |->
        [Timestamp |-> i * Period, Maximum |-> 10 * Sum(SubSeq(costs, 1, i))]]

\* the series of n days
Series(n) == [1..n -> CostVals]

\* what the handler is run on: the series of n days that cost 0.11 each
\* except, possibly, the last two
HandlerSeries(n) ==
    {[k \in 1..n |-> IF k <= n - 2 THEN 11 ELSE t[k - Max(n - 2, 0)]] :
        t \in Series(IF n < 2 THEN n ELSE 2)}

\* what two overlapping invocations are run on
OverlapSeries == {<<>>, <<11>>, <<11, 11, 11, 11, 11, 11, 60>>}

\* raw readings given to the normalizer alone, in milli-dollars, in any order
RawVals == {0, 125, 250, 375, 1000}

\* the orders in which a response may list n days
Orders(n) == {q \in [1..n -> 1..n] : \A a, b \in 1..n : q[a] = q[b] => a = b}

\* the response listing day p[i] i-th, read at hour h, with reading m[i]
raw_response(p, m, h) ==
    [i \in DOMAIN p |-> [Timestamp |-> p[i] * Period + h * 3600, Maximum |-> m[i]]]

Configs == {"", "configured"}

----------------------------------------------------------------------------
(* Specifications *)

Idle(S) ==
    /\ now = 0
    /\ datapoints = [i \in Invocations |-> <<>>]
    /\ cost_data = [i \in Invocations |-> <<>>]
    /\ anomalies = [i \in Invocations |-> <<>>]
    /\ response = [i \in Invocations |-> 0]
    /\ fetch_raised = [i \in Invocations |-> FALSE]
    /\ s3_puts = <<>>
    /\ sns_publishes = <<>>
    /\ pc = [i \in Invocations |-> IF i \in S THEN "start" ELSE "off"]

\* one invocation of lambda_handler, any configuration
Init ==
    /\ SNS_TOPIC_ARN \in Configs
    /\ S3_BUCKET \in Configs
    /\ ANOMALY_THRESHOLD \in Thresholds
    /\ Idle({1})

Next ==
    \/ \E n \in 0..MaxLen : \E c \in HandlerSeries(n) :
           lambda_handler_fetch(1, response_of(c))
    \/ lambda_handler_fetch_raises(1)
    \/ \E ok \in BOOLEAN : lambda_handler_save(1, ok)
    \/ \E ok \in BOOLEAN : lambda_handler_alert(1, ok)
    \/ tick

Spec == Init /\ [][Next]_vars

\* overlapping invocations of lambda_handler
InitOverlap ==
    /\ SNS_TOPIC_ARN \in Configs
    /\ S3_BUCKET \in Configs
    /\ ANOMALY_THRESHOLD = DEFAULT_THRESHOLD
    /\ Idle(Invocations)

NextOverlap ==
    \/ \E i \in Invocations, c \in OverlapSeries : lambda_handler_fetch(i, response_of(c))
    \/ \E i \in Invocations : lambda_handler_fetch_raises(i)
    \/ \E i \in Invocations, ok \in BOOLEAN : lambda_handler_save(i, ok)
    \/ \E i \in Invocations, ok \in BOOLEAN : lambda_handler_alert(i, ok)
    \/ tick

SpecOverlap == InitOverlap /\ [][NextOverlap]_vars

\* the normalizer alone, on any raw response
normalize ==
    /\ pc[1] = "raw"
    /\ cost_data' = [cost_data EXCEPT ![1] = fetch_billing_metrics(datapoints[1])]
    /\ pc' = [pc EXCEPT ![1] = "normalized"]
    /\ UNCHANGED <<SNS_TOPIC_ARN, S3_BUCKET, ANOMALY_THRESHOLD, now, datapoints,
                   anomalies, response, fetch_raised, s3_puts, sns_publishes>>

InitNormalize ==
    /\ SNS_TOPIC_ARN = ""
    /\ S3_BUCKET = ""
    /\ ANOMALY_THRESHOLD = DEFAULT_THRESHOLD
    /\ now = 0
    /\ \E n \in 0..MaxRaw : \E p \in Orders(n), m \in [1..n -> RawVals], h \in {0, 6} :
           datapoints = [i \in Invocations |-> IF i = 1 THEN raw_response(p, m, h) ELSE <<>>]
    /\ cost_data = [i \in Invocations |-> <<>>]
    /\ anomalies = [i \in Invocations |-> <<>>]
    /\ response = [i \in Invocations |-> 0]
    /\ fetch_raised = [i \in Invocations |-> FALSE]
    /\ s3_puts = <<>>
    /\ sns_publishes = <<>>
    /\ pc = [i \in Invocations |-> IF i = 1 THEN "raw" ELSE "off"]

NextNormalize == normalize

SpecNormalize == InitNormalize /\ [][NextNormalize]_vars

\* the detector alone, on any cost series and threshold
detect ==
    /\ pc[1] = "series"
    /\ anomalies' = [anomalies EXCEPT ![1] =
                        detect_anomalies_mad(cost_data[1], ANOMALY_THRESHOLD)]
    /\ pc' = [pc EXCEPT ![1] = "detected"]
    /\ UNCHANGED <<SNS_TOPIC_ARN, S3_BUCKET, ANOMALY_THRESHOLD, now, datapoints,
                   cost_data, response, fetch_raised, s3_puts, sns_publishes>>

\* the detector is given what the normalizer makes of the readings of c
DetectInput(c) ==
    /\ datapoints = [i \in Invocations |-> IF i = 1 THEN response_of(c) ELSE <<>>]
    /\ cost_data = [i \in Invocations |->
                       IF i = 1 THEN fetch_billing_metrics(datapoints[1]) ELSE <<>>]

InitDetect ==
    /\ SNS_TOPIC_ARN = ""
    /\ S3_BUCKET = ""
    /\ ANOMALY_THRESHOLD \in Thresholds
    /\ now = 0
    /\ \/ \E n \in 0..MaxLen : \E c \in Series(n) : DetectInput(c)
       \/ DetectInput(ExampleCosts)
    /\ anomalies = [i \in Invocations |-> <<>>]
    /\ response = [i \in Invocations |-> 0]
    /\ fetch_raised = [i \in Invocations |-> FALSE]
    /\ s3_puts = <<>>
    /\ sns_publishes = <<>>
    /\ pc = [i \in Invocations |-> IF i = 1 THEN "series" ELSE "off"]

NextDetect == detect

SpecDetect == InitDetect /\ [][NextDetect]_vars

----------------------------------------------------------------------------
(* Definitions the properties are stated with, independent of the code's   *)
(* way of computing them.                                                  *)

PutsBy(i) == {k \in DOMAIN s3_puts : s3_puts[k].inv = i}

PublishesBy(i) == {k \in DOMAIN sns_publishes : sns_publishes[k].inv = i}

CostsOf(i) == [k \in 1..Len(cost_data[i]) |-> cost_data[i][k].total_cost]

\* the k-th smallest element of xs, by counting
KthSmallest(xs, k) ==
    CHOOSE x \in {xs[j] : j \in DOMAIN xs} :
        /\ Cardinality({j \in DOMAIN xs : xs[j] < x}) < k
        /\ k <= Cardinality({j \in DOMAIN xs : xs[j] <= x})

\* twice the standard median: the middle value, or the mean of the two middle ones
StdMedianX2(xs) ==
    KthSmallest(xs, (Len(xs) + 1) \div 2) + KthSmallest(xs, (Len(xs) \div 2) + 1)

\* the standard median of the costs (cents), in quarter-cents
StdMedian(costs) == 2 * StdMedianX2(costs)

\* the median absolute deviation about m, 0.01 in place of 0, in quarter-cents
StdMad(costs, m) ==
    LET d == [j \in DOMAIN costs |-> Abs(4 * costs[j] - m)]
        v == StdMedianX2(d)
    IN  IF v = 0 THEN 4 ELSE v \div 2

\* |0.6745 * (cost - m) / mad| > threshold * factor / 2, all integers
ScoreExceeds(cost, m, mad, threshold, factor) ==
    2 * 6745 * Abs(4 * cost - m) > factor * threshold * 100 * mad

\* the day of the series that an anomaly record is about
DayOf(i, a) == CHOOSE k \in DOMAIN cost_data[i] : cost_data[i][k].date = a.date

\* the reading of the response taken on a given calendar day
ReadingOn(i, day) ==
    LET k == CHOOSE j \in DOMAIN datapoints[i] :
                 datapoints[i][j].Timestamp \div 86400 = day
    IN  datapoints[i][k].Maximum

\* v cents is r milli-dollars rounded to the cent (either way on a tie)
IsRounded(v, r) == Abs(10 * v - r) <= 5

----------------------------------------------------------------------------
(* C1 *)

\* C1: an invocation returns statusCode 500 exactly when the metric fetch
\* failed and 200 otherwise, whatever became of put_object and publish; after
\* a failed fetch the invocation makes no put_object and no publish call.
C1_StatusIffFetchFails ==
    \A i \in Invocations :
        /\ pc[i] = "done" => response[i] = (IF fetch_raised[i] THEN 500 ELSE 200)
        /\ pc[i] # "done" => response[i] = 0
        /\ fetch_raised[i] => PutsBy(i) = {} /\ PublishesBy(i) = {}

\* an invocation that returned 200 although its put_object and its publish
\* both failed
C1_Witness ==
    \E i \in Invocations :
        /\ pc[i] = "done" /\ ~fetch_raised[i] /\ response[i] = 200
        /\ \E k \in PutsBy(i) : ~s3_puts[k].ok
        /\ \E k \in PublishesBy(i) : ~sns_publishes[k].ok

----------------------------------------------------------------------------
(* C2 *)

\* C2 as stated: same length and date order as the response, total_cost >= 0,
\* the first total_cost equal to its cumulative_cost, and each later
\* total_cost = max(cumulative_cost[k] - cumulative_cost[k-1], 0) on the
\* reported cumulative_cost fields.
C2_AsStated ==
    pc[1] = "normalized" =>
        /\ Len(cost_data[1]) = Len(datapoints[1])
        /\ \A k \in DOMAIN cost_data[1] :
            /\ cost_data[1][k].date = datapoints[1][k].Timestamp \div 86400
            /\ cost_data[1][k].total_cost >= 0
            /\ k = 1 => cost_data[1][k].total_cost = cost_data[1][k].cumulative_cost
            /\ k > 1 => cost_data[1][k].total_cost =
                            Max(cost_data[1][k].cumulative_cost
                                - cost_data[1][k - 1].cumulative_cost, 0)

\* C2, amended: the output has the length of the response and lists its days
\* in ascending date order (the response is sorted first); every total_cost is
\* >= 0; the first equals its cumulative_cost; each later total_cost is the
\* clamped difference of the two unrounded readings, day and day before,
\* rounded to the cent, hence within one cent of the difference of the
\* reported cumulative_cost fields.
C2_NormalizerDeltas ==
    pc[1] = "normalized" =>
        /\ Len(cost_data[1]) = Len(datapoints[1])
        /\ {cost_data[1][k].date : k \in DOMAIN cost_data[1]} =
               {datapoints[1][j].Timestamp \div 86400 : j \in DOMAIN datapoints[1]}
        /\ \A k \in DOMAIN cost_data[1] :
            /\ k > 1 => cost_data[1][k - 1].date < cost_data[1][k].date
            /\ cost_data[1][k].total_cost >= 0
            /\ IsRounded(cost_data[1][k].cumulative_cost,
                         ReadingOn(1, cost_data[1][k].date))
            /\ k = 1 => cost_data[1][k].total_cost = cost_data[1][k].cumulative_cost
            /\ k > 1 =>
                /\ IsRounded(cost_data[1][k].total_cost,
                             Max(ReadingOn(1, cost_data[1][k].date)
                                 - ReadingOn(1, cost_data[1][k - 1].date), 0))
                /\ Abs(cost_data[1][k].total_cost
                       - Max(cost_data[1][k].cumulative_cost
                             - cost_data[1][k - 1].cumulative_cost, 0)) <= 1

\* a response out of date order, with a reading below the one of the day
\* before, normalized to a total_cost that is not the difference of the
\* reported cumulative_cost fields
C2_Witness ==
    /\ pc[1] = "normalized"
    /\ Len(cost_data[1]) = 3
    /\ datapoints[1][1].Timestamp > datapoints[1][2].Timestamp
    /\ cost_data[1][2].cumulative_cost < cost_data[1][1].cumulative_cost
    /\ cost_data[1][2].total_cost = 0
    /\ cost_data[1][3].total_cost #
           cost_data[1][3].cumulative_cost - cost_data[1][2].cumulative_cost
    /\ cost_data[1][3].total_cost > 0

----------------------------------------------------------------------------
(* C3 *)

\* C3: a series of fewer than 7 points has no anomaly, whatever its costs and
\* the threshold, and the invocation that fetched it publishes nothing.
C3_ShortSeriesNoAnomaly ==
    \A i \in Invocations :
        (pc[i] \in {"save", "alert", "done"} /\ ~fetch_raised[i] /\ Len(cost_data[i]) < 7)
            => anomalies[i] = <<>> /\ PublishesBy(i) = {}

\* a finished invocation on six points, one of them far from the others, with
\* a destination configured and the lowest threshold
C3_Witness ==
    \E i \in Invocations :
        /\ pc[i] = "done" /\ ~fetch_raised[i]
        /\ SNS_TOPIC_ARN # "" /\ ANOMALY_THRESHOLD = 50
        /\ CostsOf(i) = <<11, 11, 11, 11, 11, 60>>
        /\ anomalies[i] = <<>> /\ PublishesBy(i) = {}

----------------------------------------------------------------------------
(* C4 *)

\* C4: the anomalies are in descending order of |z_score|, and anomalies of
\* equal |z_score| are in the order of their days in the series.
C4_SortedStable ==
    pc[1] = "detected" =>
        \A j, k \in DOMAIN anomalies[1] :
            j < k =>
                /\ Abs(anomalies[1][j].z_score) >= Abs(anomalies[1][k].z_score)
                /\ Abs(anomalies[1][j].z_score) = Abs(anomalies[1][k].z_score)
                       => DayOf(1, anomalies[1][j]) < DayOf(1, anomalies[1][k])

\* anomalies of equal |z_score| on different days, after an anomaly of a
\* later day and a higher |z_score|
C4_Witness ==
    /\ pc[1] = "detected"
    /\ Len(anomalies[1]) >= 3
    /\ Abs(anomalies[1][1].z_score) > Abs(anomalies[1][2].z_score)
    /\ anomalies[1][1].date > anomalies[1][2].date
    /\ Abs(anomalies[1][2].z_score) = Abs(anomalies[1][3].z_score)
    /\ anomalies[1][2].date < anomalies[1][3].date

----------------------------------------------------------------------------
(* C5 *)

\* C5: an invocation makes at most one publish call; it makes one only if it
\* found an anomaly and SNS_TOPIC_ARN is configured, and the anomaly described
\* is one of those found, of |z_score| >= that of every other one.
C5_OneAlertForTheTopAnomaly ==
    \A i \in Invocations :
        /\ Cardinality(PublishesBy(i)) <= 1
        /\ (SNS_TOPIC_ARN = "" \/ (pc[i] = "done" /\ anomalies[i] = <<>>))
               => PublishesBy(i) = {}
        /\ \A k \in PublishesBy(i) :
            /\ anomalies[i] # <<>>
            /\ SNS_TOPIC_ARN # ""
            /\ \E j \in DOMAIN anomalies[i] : anomalies[i][j] = sns_publishes[k].anomaly
            /\ \A j \in DOMAIN anomalies[i] :
                   Abs(sns_publishes[k].anomaly.z_score) >= Abs(anomalies[i][j].z_score)

\* a publish call about the anomaly of the last day, where an earlier day is
\* an anomaly too, of a lower |z_score|
C5_Witness ==
    \E i \in Invocations :
        \E k \in PublishesBy(i) :
            /\ pc[i] = "done"
            /\ Len(anomalies[i]) >= 2
            /\ \E j \in DOMAIN anomalies[i] :
                /\ anomalies[i][j].date < sns_publishes[k].anomaly.date
                /\ Abs(anomalies[i][j].z_score) < Abs(sns_publishes[k].anomaly.z_score)

----------------------------------------------------------------------------
(* C6 *)

\* C6 as stated: every invocation whose fetch succeeds, with a bucket
\* configured, makes exactly one put_object call, whatever the series.
C6_AsStated ==
    \A i \in Invocations :
        (pc[i] = "done" /\ ~fetch_raised[i] /\ S3_BUCKET # "")
            => /\ Cardinality(PutsBy(i)) = 1
               /\ \A k \in PutsBy(i) :
                      /\ s3_puts[k].cost_data = cost_data[i]
                      /\ s3_puts[k].anomalies = anomalies[i]

\* C6, amended: no invocation makes more than one put_object call; one whose
\* fetch succeeds with a non-empty series, a bucket configured, makes exactly
\* one, carrying the cost series and the anomaly list of the run, anomalies or
\* not; one whose fetch returns an empty series makes none.
C6_OneReportPerNonEmptyRun ==
    \A i \in Invocations :
        /\ Cardinality(PutsBy(i)) <= 1
        /\ \A k \in PutsBy(i) :
               /\ s3_puts[k].cost_data = cost_data[i]
               /\ s3_puts[k].anomalies = anomalies[i]
        /\ (pc[i] = "done" /\ ~fetch_raised[i] /\ S3_BUCKET # "")
               => Cardinality(PutsBy(i)) = (IF cost_data[i] = <<>> THEN 0 ELSE 1)

\* a finished invocation on seven points without anomaly that wrote its report
C6_Witness ==
    \E i \in Invocations :
        /\ pc[i] = "done" /\ ~fetch_raised[i] /\ S3_BUCKET # ""
        /\ Len(cost_data[i]) = 7 /\ anomalies[i] = <<>>
        /\ \E k \in PutsBy(i) : s3_puts[k].cost_data = cost_data[i]

----------------------------------------------------------------------------
(* C7 *)

\* C7: no two put_object calls ever name the same key, so no report is
\* overwritten by a later or overlapping run.
C7_UniqueKeys ==
    \A j, k \in DOMAIN s3_puts :
        j # k => s3_puts[j].Key # s3_puts[k].Key

----------------------------------------------------------------------------
(* C8 *)

----------------------------------------------------------------------------
(* C9 *)

\* C9 as stated: each record agrees with its own reported z_score: "spike" if
\* z_score > 0 else "drop", "critical" if |z_score| > 1.5 * threshold else
\* "warning", and |z_score| > threshold.
C9_AsStated ==
    pc[1] = "detected" =>
        \A j \in DOMAIN anomalies[1] :
            LET a == anomalies[1][j]
            IN  /\ a.anomaly_type = (IF a.z_score > 0 THEN "spike" ELSE "drop")
                /\ a.severity = (IF 2 * Abs(a.z_score) > 3 * ANOMALY_THRESHOLD
                                 THEN "critical" ELSE "warning")
                /\ Abs(a.z_score) > ANOMALY_THRESHOLD

\* C9, amended: each record is classified by the unrounded modified z-score z
\* of its day: "spike" if z > 0 else "drop", "critical" if |z| > 1.5 *
\* threshold else "warning", and |z| > threshold; the reported z_score is z
\* rounded to 2 decimals, so it has the sign the type names and is >= the
\* threshold less 0.005 in absolute value, but need not exceed the threshold
\* (or 1.5 times it) itself.
C9_ClassifiedByUnroundedScore ==
    (pc[1] = "detected" /\ anomalies[1] # <<>>) =>
        LET m   == StdMedian(CostsOf(1))
            mad == StdMad(CostsOf(1), m)
        IN  \A j \in DOMAIN anomalies[1] :
            LET a   == anomalies[1][j]
                dev == 4 * a.cost - m
            IN  /\ a.anomaly_type = (IF dev > 0 THEN "spike" ELSE "drop")
                /\ a.severity = (IF ScoreExceeds(a.cost, m, mad, ANOMALY_THRESHOLD, 3)
                                 THEN "critical" ELSE "warning")
                /\ ScoreExceeds(a.cost, m, mad, ANOMALY_THRESHOLD, 2)
                /\ 2 * Abs(a.z_score * 100 * mad - 6745 * dev) <= 100 * mad
                /\ a.z_score > 0 => a.anomaly_type = "spike"
                /\ a.z_score < 0 => a.anomaly_type = "drop"
                /\ 2 * Abs(a.z_score) >= 2 * ANOMALY_THRESHOLD - 1

\* a critical anomaly whose reported z_score is exactly 1.5 times the threshold
C9_Witness ==
    /\ pc[1] = "detected"
    /\ \E j \in DOMAIN anomalies[1] :
        /\ anomalies[1][j].severity = "critical"
        /\ 2 * Abs(anomalies[1][j].z_score) = 3 * ANOMALY_THRESHOLD

----------------------------------------------------------------------------
(* C10 *)

\* C10: deviation_percent of every anomaly is (cost - median) / median * 100
\* rounded to 2 decimals when the median of the series is not 0, and 0 when
\* it is 0.
C10_DeviationPercent ==
    (pc[1] = "detected" /\ anomalies[1] # <<>>) =>
        LET m == StdMedian(CostsOf(1))
        IN  \A j \in DOMAIN anomalies[1] :
            LET a   == anomalies[1][j]
                dev == 4 * a.cost - m
            IN  IF m = 0 THEN a.deviation_percent = 0
                ELSE 2 * Abs(a.deviation_percent * m - 10000 * dev) <= Abs(m)

\* an anomaly in a series whose median is 0
C10_Witness ==
    /\ pc[1] = "detected"
    /\ Len(cost_data[1]) >= 7
    /\ StdMedian(CostsOf(1)) = 0
    /\ \E j \in DOMAIN anomalies[1] :
        /\ anomalies[1][j].cost > 0
        /\ anomalies[1][j].deviation_percent = 0

====
